---- MODULE Spec2Model ----
(***************************************************************************)
(* Portfolio rebalancing: the sequential BaselineRebalancer and the        *)
(* vectorised, thread-pooled OptimizedRebalancer of                        *)
(* tests/performance/rebalance_benchmark.py, run one after the other on    *)
(* the same (current_positions, target_allocation, total_value).           *)
(*                                                                         *)
(* Floats are fixed-point integers: a float x is stored as x * Scale.      *)
(* A dict is a function (current_positions) or, where the iteration order  *)
(* matters, a sequence of [symbol, pct] records with distinct symbols      *)
(* (target_allocation, in insertion order).                                *)
(***************************************************************************)
EXTENDS Integers, Sequences, FiniteSets, TLC

(* ------------------------------ bounds -------------------------------- *)

\* Worker threads of the pool (n_workers; the benchmark passes 4).
NWorkers == 2

\* Length of the generator's stream before it repeats.
RngMod == 8

\* The most runs a benchmark is asked to make (n_runs).
MaxRuns == 2

\* The symbols a request may name.
Symbols == {"AAA", "BBB", "CCC"}

(* --------------------------- program constants ------------------------ *)

\* Fixed-point resolution of a float: 1.0 is stored as Scale.
Scale == 10000

\* np.random.seed(42)
Seed == 42

\* "if abs(diff) > 1.0:  # Minimum order size"
MinOrderSize == 1

\* "quantity = abs(diff) / 100.0  # Assume $100 per share"
UnitPrice == 100

\* "* quantity * 0.01": the risk coefficient is 1 / RiskCoefInv.
RiskCoefInv == 100

\* The target speedup, in percent: "if speedup >= 25.0".
TargetSpeedup == 25

(* ------------------------------ inputs -------------------------------- *)

\* Target weights 0, 0.5 and 1.0.
Weights == {0, Scale \div 2, Scale}

\* Values of held positions: 1.0 and 3.0.
PosValues == {1 * Scale, 3 * Scale}

\* total_value: -2.0, 0.0, 3.0 and 4.0 (the code accepts any float).
TotalValues == {(0 - 2) * Scale, 0, 3 * Scale, 4 * Scale}

\* The value a held position of each symbol has: AAA 1.0, the others 3.0.
HeldValues ==
  [s \in Symbols |-> IF s = "AAA" THEN {1 * Scale} ELSE {3 * Scale}]

\* dict: the mappings from a set of held symbols to their values.
PositionDicts ==
  UNION {{d \in [H -> PosValues] : \A s \in H : d[s] \in HeldValues[s]} :
           H \in SUBSET Symbols}

\* dict in insertion order: sequences of entries with distinct symbols.
AllocationDicts ==
  {a \in UNION {[1..n -> [symbol : Symbols, pct : Weights]] :
                  n \in 0..Cardinality(Symbols)} :
     \A i, j \in DOMAIN a : i # j => a[i].symbol # a[j].symbol}

(* ------------------------------- state -------------------------------- *)

VARIABLES
  current_positions,  \* the caller's positions dict
  target_allocation,  \* the caller's allocation dict, in insertion order
  total_value,        \* the caller's total_value
  faulty,             \* symbols whose OptimizedRebalancer._prepare_order raises
  rng,                \* state of the process-wide np.random generator
  pc,                 \* where the calling thread is
  idx,                \* BaselineRebalancer.rebalance: the entry the loop is at
  orders,             \* the "orders" list of the rebalance call in progress
  base_result,        \* outcome of BaselineRebalancer.rebalance
  mask,               \* OptimizedRebalancer.rebalance: mask
  filtered_symbols,   \*   filtered_symbols
  filtered_diffs,     \*   filtered_diffs
  filtered_current,   \*   filtered_current
  filtered_target,    \*   filtered_target
  executor,           \* the ThreadPoolExecutor: "none", "active", "shutdown"
  work_queue,         \* its work queue: task numbers, 0 for the None sentinel
  threads,            \* its worker threads
  idle_semaphore,     \* its count of idle workers
  fs,                 \* the futures of executor.map, in submission order
  opt_result,         \* outcome of OptimizedRebalancer.rebalance
  n_runs,             \* benchmark_rebalancer: n_runs (0: no benchmark runs)
  bench,              \* the rebalancer being benchmarked, or "none"
  calls,              \* rebalance calls the current benchmark has started
  times,              \* benchmark_rebalancer: times
  bench_orders,       \* benchmark_rebalancer: orders, or None when unbound
  baseline_time,      \* main: baseline_time
  baseline_orders,    \* main: baseline_orders
  optimized_time,     \* main: optimized_time
  optimized_orders,   \* main: optimized_orders
  verdict,            \* main: "PASS" or "FAIL" once printed
  rv,                 \* main: the value the command function returns
  exit_status,        \* the exit status of the process
  redis_client,       \* inference_server: redis_client ("client" or "none")
  redis_db,           \* the keys Redis holds: cache key -> value and ttl
  stored_by,          \* history: the features of the request that stored a key
  registry,           \* the model ids the MLflow registry can load
  model_cache,        \* inference_server: model_cache (its keys)
  request,            \* predict: request
  sv_pc,              \* predict: position in the handler
  response,           \* predict: the response returned
  status,             \* the HTTP status the request ended with (0: not yet)
  effects,            \* history: what the handler did for this request
  ohlcv,              \* generate_signals: ohlcv
  strategy,           \* generate_signals: strategy
  signals,            \* generate_signals: the returned Series
  bt_pc,              \* generate_signals: called or returned
  fl_quantity,        \* _calculate_risk: quantity, as a float
  fl_rand,            \* _calculate_risk: the value np.random.random() gave
  fl_risk,            \* _calculate_risk: the returned value
  fl_pc               \* _calculate_risk: which rebalancer, called or returned

(* --------------------------- float helpers ---------------------------- *)

Abs(x) == IF x < 0 THEN 0 - x ELSE x

\* a * b on floats: (a * b) \div Scale, computed from the whole and the
\* fractional part of a so that the intermediate product stays small.
FMul(a, b) == (a \div Scale) * b + ((a % Scale) * b) \div Scale

\* dict.get(k, default)
Get(d, k, default) == IF k \in DOMAIN d THEN d[k] ELSE default

(* ------------------------- np.random.random() ------------------------- *)

\* The generator's state is its position in its stream; a draw returns the
\* stream's value there, a float in [0, 1), and moves to the next position.
RandomValue(pos) == (((pos * 5 + 2) % RngMod) * Scale) \div RngMod

\* Mutant: a call of np.random.random() takes two values of the stream.
RngAdvance_twice(pos) == (pos + 2) % RngMod

\* The position of the stream after one np.random.random().
RngAdvance(pos) == (pos + 1) % RngMod

(* ----------------------- BaselineRebalancer --------------------------- *)

\* BaselineRebalancer._calculate_risk, given the value np.random.random()
\* returned.  A risk score r is stored as r * Scale * Scale * RiskCoefInv,
\* so that the product of the draw and the quantity is exact.
Baseline_calculate_risk(quantity, rand) == rand * quantity

\* Mutant: the quantity keeps the sign of diff (abs forgotten).
Baseline_prepare_order_signed(symbol, diff, current_value, target_value, rand) ==
  LET side == IF diff > 0 THEN "buy" ELSE "sell"
      quantity == diff \div UnitPrice
      risk_score == Baseline_calculate_risk(quantity, rand)
  IN  [symbol |-> symbol, side |-> side, quantity |-> quantity,
       current_value |-> current_value, target_value |-> target_value,
       risk_score |-> risk_score]

\* BaselineRebalancer._prepare_order, given the value of the random draw.
Baseline_prepare_order(symbol, diff, current_value, target_value, rand) ==
  LET side == IF diff > 0 THEN "buy" ELSE "sell"
      quantity == Abs(diff) \div UnitPrice
      risk_score == Baseline_calculate_risk(quantity, rand)
  IN  [symbol |-> symbol, side |-> side, quantity |-> quantity,
       current_value |-> current_value, target_value |-> target_value,
       risk_score |-> risk_score]

\* Mutant: a held symbol that has no target is visited too, with weight 0.
Baseline_items_with_held(allocation) ==
  LET untargeted == DOMAIN current_positions \
                      {allocation[i].symbol : i \in DOMAIN allocation}
  IN  IF untargeted = {} THEN allocation
      ELSE Append(allocation,
                  [symbol |-> CHOOSE s \in untargeted : TRUE, pct |-> 0])

\* "for symbol, target_pct in target_allocation.items()"
Baseline_items(allocation) == allocation

\* "current_value = current_positions.get(symbol, 0.0)"
Baseline_current_value(positions, symbol) == Get(positions, symbol, 0)

\* "target_value = total_value * target_pct"
Baseline_target_value(total, target_pct) == FMul(total, target_pct)

\* Mutant: the threshold test is >= instead of >.
Baseline_significant_ge(diff) == Abs(diff) >= MinOrderSize * Scale

\* "if abs(diff) > 1.0"
Baseline_significant(diff) == Abs(diff) > MinOrderSize * Scale

(* ----------------------- OptimizedRebalancer -------------------------- *)

\* OptimizedRebalancer._calculate_risk_vectorized
Optimized_calculate_risk_vectorized(quantity, rand) == rand * quantity

\* Mutant: the sides are swapped.
Optimized_prepare_order_swapped(symbol, diff, current_value, target_value, rand) ==
  LET side == IF diff > 0 THEN "sell" ELSE "buy"
      quantity == Abs(diff) \div UnitPrice
      risk_score == Optimized_calculate_risk_vectorized(quantity, rand)
  IN  [symbol |-> symbol, side |-> side, quantity |-> quantity,
       current_value |-> current_value, target_value |-> target_value,
       risk_score |-> risk_score]

\* OptimizedRebalancer._prepare_order
Optimized_prepare_order(symbol, diff, current_value, target_value, rand) ==
  LET side == IF diff > 0 THEN "buy" ELSE "sell"
      quantity == Abs(diff) \div UnitPrice
      risk_score == Optimized_calculate_risk_vectorized(quantity, rand)
  IN  [symbol |-> symbol, side |-> side, quantity |-> quantity,
       current_value |-> current_value, target_value |-> target_value,
       risk_score |-> risk_score]

\* "symbols = list(target_allocation.keys())"
SymbolList(allocation) == [i \in DOMAIN allocation |-> allocation[i].symbol]

\* Mutant: the rebalancer remembers the batch of its previous call and takes
\* a symbol it ordered then to be at its target value now.
CurrentValues_remembered(positions, symbols) ==
  [i \in DOMAIN symbols |->
     IF calls > 1
          /\ \E n \in DOMAIN bench_orders : bench_orders[n].symbol = symbols[i]
       THEN LET n == CHOOSE n \in DOMAIN bench_orders :
                       bench_orders[n].symbol = symbols[i]
            IN  bench_orders[n].target_value
       ELSE Get(positions, symbols[i], 0)]

\* "np.array([current_positions.get(s, 0.0) for s in symbols])"
CurrentValues(positions, symbols) ==
  [i \in DOMAIN symbols |-> Get(positions, symbols[i], 0)]

\* "np.array([target_allocation[s] for s in symbols])": symbols[i] is the
\* key of the i-th entry, so the lookup yields that entry's weight.
TargetPcts(allocation, symbols) ==
  [i \in DOMAIN symbols |->
     (CHOOSE e \in {allocation[j] : j \in DOMAIN allocation} :
        e.symbol = symbols[i]).pct]

\* sum(current_positions.values())
RECURSIVE SumValues(_, _)
SumValues(d, keys) ==
  IF keys = {} THEN 0
  ELSE LET k == CHOOSE x \in keys : TRUE
       IN  d[k] + SumValues(d, keys \ {k})

\* Mutant: the targets are sized by the sum of the positions instead of
\* the caller's total_value.
TargetValues_of_sum(total, target_pcts) ==
  [i \in DOMAIN target_pcts |->
     FMul(SumValues(current_positions, DOMAIN current_positions),
          target_pcts[i])]

\* "target_values = total_value * target_pcts"
TargetValues(total, target_pcts) ==
  [i \in DOMAIN target_pcts |-> FMul(total, target_pcts[i])]

\* Mutant: the difference is taken the other way round.
Diffs_reversed(target_values, current_values) ==
  [i \in DOMAIN target_values |-> current_values[i] - target_values[i]]

\* "diffs = target_values - current_values"
Diffs(target_values, current_values) ==
  [i \in DOMAIN target_values |-> target_values[i] - current_values[i]]

\* Mutant: the mask keeps an entry whose diff is exactly the threshold.
Mask_ge(diffs) == [i \in DOMAIN diffs |-> Abs(diffs[i]) >= MinOrderSize * Scale]

\* "mask = np.abs(diffs) > 1.0"
Mask(diffs) == [i \in DOMAIN diffs |-> Abs(diffs[i]) > MinOrderSize * Scale]

\* arr[mask], and [s for i, s in enumerate(symbols) if mask[i]]
RECURSIVE Masked(_, _)
Masked(arr, keep) ==
  IF arr = <<>> THEN <<>>
  ELSE LET n == Len(arr)
           front == Masked(SubSeq(arr, 1, n - 1), SubSeq(keep, 1, n - 1))
       IN  IF keep[n] THEN Append(front, arr[n]) ELSE front

(* --------------------------- state functions -------------------------- *)

inputs == <<current_positions, target_allocation, total_value, faulty>>

filtered == <<mask, filtered_symbols, filtered_diffs, filtered_current,
              filtered_target>>

pool == <<executor, work_queue, threads, idle_semaphore, fs>>

harness == <<n_runs, bench, calls, times, bench_orders, baseline_time, baseline_orders,
             optimized_time, optimized_orders, verdict, rv, exit_status>>

\* The state of the inference server.
server == <<redis_client, redis_db, stored_by, registry, model_cache, request,
            sv_pc, response, status, effects>>

\* The state of a generate_signals call.
backtest == <<ohlcv, strategy, signals, bt_pc>>

\* The state of a _calculate_risk call in float arithmetic.
riskcalc == <<fl_quantity, fl_rand, fl_risk, fl_pc>>

\* What the rebalancers and their benchmark never touch.
aside == <<server, backtest, riskcalc>>

vars == <<inputs, rng, pc, idx, orders, base_result, filtered, pool,
          opt_result, harness, aside>>

\* The worker threads of the executor: executor._threads.
Workers == DOMAIN threads

NoResult == [kind |-> "none", orders |-> <<>>]

NoThreads == <<>>

\* Threads started so far: len(executor._threads).
NumThreads == Len(threads)

\* No value yet (an unassigned local).
None == -1

\* No inference server runs.
NoServer ==
  /\ redis_client = "none"
  /\ redis_db = <<>>
  /\ stored_by = <<>>
  /\ registry = {}
  /\ model_cache = {}
  /\ request = <<>>
  /\ sv_pc = "off"
  /\ response = <<>>
  /\ status = 0
  /\ effects = {}

\* No generate_signals call runs.
NoBacktest ==
  /\ ohlcv = <<>>
  /\ strategy = "none"
  /\ signals = <<>>
  /\ bt_pc = "off"

\* No _calculate_risk call is looked at in float arithmetic.
NoRiskCalc ==
  /\ fl_quantity = <<>>
  /\ fl_rand = <<>>
  /\ fl_risk = <<>>
  /\ fl_pc = "off"

\* Only the rebalancers run.
NoAside == NoServer /\ NoBacktest /\ NoRiskCalc

\* The state of the harness when no benchmark runs.
NoHarness ==
  /\ n_runs = 0
  /\ bench = "none"
  /\ calls = 0
  /\ times = <<>>
  /\ bench_orders = None
  /\ baseline_time = None
  /\ baseline_orders = None
  /\ optimized_time = None
  /\ optimized_orders = None
  /\ verdict = "none"
  /\ rv = None
  /\ exit_status = None

InitCall ==
  /\ rng = Seed % RngMod
  /\ pc = "base_loop"
  /\ idx = 1
  /\ orders = <<>>
  /\ base_result = NoResult
  /\ mask = <<>>
  /\ filtered_symbols = <<>>
  /\ filtered_diffs = <<>>
  /\ filtered_current = <<>>
  /\ filtered_target = <<>>
  /\ executor = "none"
  /\ work_queue = <<>>
  /\ threads = NoThreads
  /\ idle_semaphore = 0
  /\ fs = <<>>
  /\ opt_result = NoResult

\* Any request; every order synthesis succeeds (the inputs are floats).
Init ==
  /\ current_positions \in PositionDicts
  /\ target_allocation \in AllocationDicts
  /\ total_value \in TotalValues
  /\ faulty = {}
  /\ InitCall
  /\ NoHarness
  /\ NoAside

\* Mutant: current_positions.setdefault(symbol, 0.0), which adds the key.
Positions_after_setdefault(positions, symbol) ==
  IF symbol \in DOMAIN positions THEN positions
  ELSE [s \in DOMAIN positions \cup {symbol} |->
          IF s = symbol THEN 0 ELSE positions[s]]

\* current_positions after "current_positions.get(symbol, 0.0)": get reads.
Positions_after_get(positions, symbol) == positions

(* ------------------- BaselineRebalancer.rebalance --------------------- *)

\* Mutant: the order is put at the front of the list.
Baseline_orders_insert_front(batch, order) == <<order>> \o batch

\* "orders.append(order)"
Baseline_orders_append(batch, order) == Append(batch, order)

\* One iteration of "for symbol, target_pct in target_allocation.items()".
BaselineIter ==
  /\ pc = "base_loop"
  /\ idx <= Len(Baseline_items(target_allocation))
  /\ LET items == Baseline_items(target_allocation)
         symbol == items[idx].symbol
         target_pct == items[idx].pct
         current_value == Baseline_current_value(current_positions, symbol)
         target_value == Baseline_target_value(total_value, target_pct)
         diff == target_value - current_value
     IN  IF Baseline_significant(diff)
           THEN /\ orders' = Baseline_orders_append(orders,
                       Baseline_prepare_order(symbol, diff, current_value,
                                              target_value, RandomValue(rng)))
                /\ rng' = RngAdvance(rng)
           ELSE UNCHANGED <<orders, rng>>
  /\ current_positions' =
       Positions_after_get(current_positions,
                           Baseline_items(target_allocation)[idx].symbol)
  /\ idx' = idx + 1
  /\ UNCHANGED <<aside, target_allocation, total_value, faulty, pc, base_result,
                 filtered, pool, opt_result, harness>>

\* Where control goes when BaselineRebalancer.rebalance returns: to the
\* benchmark loop that called it or, without a benchmark, to the caller's
\* next call, OptimizedRebalancer.rebalance on the same request.
AfterBaseline == IF bench = "none" THEN "opt_filter" ELSE "bench_return"

\* Where control goes when OptimizedRebalancer.rebalance returns or raises.
AfterOptimized == IF bench = "none" THEN "done" ELSE "bench_return"

\* "return orders".
BaselineReturn ==
  /\ pc = "base_loop"
  /\ idx > Len(Baseline_items(target_allocation))
  /\ base_result' = [kind |-> "returned", orders |-> orders]
  /\ orders' = <<>>
  /\ pc' = AfterBaseline
  /\ UNCHANGED <<aside, inputs, rng, idx, filtered, pool, opt_result, harness>>

(* ------------------- OptimizedRebalancer.rebalance -------------------- *)

\* Mutant: the early return is missing.
EarlyReturn_never(m) == FALSE

\* "if not mask.any(): return []"
EarlyReturn(m) == \A i \in DOMAIN m : ~m[i]

\* The vectorised phase, on the calling thread: the arrays, the mask, the
\* early "return []", the filtered arrays, and the entry of the with block
\* that creates the executor.
OptFilter ==
  /\ pc = "opt_filter"
  /\ LET symbols == SymbolList(target_allocation)
         current_values == CurrentValues(current_positions, symbols)
         target_pcts == TargetPcts(target_allocation, symbols)
         target_values == TargetValues(total_value, target_pcts)
         diffs == Diffs(target_values, current_values)
         m == Mask(diffs)
     IN  /\ mask' = m
         /\ IF EarlyReturn(m)
              THEN /\ opt_result' = [kind |-> "returned", orders |-> <<>>]
                   /\ pc' = AfterOptimized
                   /\ UNCHANGED <<filtered_symbols, filtered_diffs,
                                  filtered_current, filtered_target, pool>>
              ELSE /\ filtered_symbols' = Masked(symbols, m)
                   /\ filtered_diffs' = Masked(diffs, m)
                   /\ filtered_current' = Masked(current_values, m)
                   /\ filtered_target' = Masked(target_values, m)
                   /\ executor' = "active"
                   /\ work_queue' = <<>>
                   /\ threads' = NoThreads
                   /\ idle_semaphore' = 0
                   /\ fs' = <<>>
                   /\ pc' = IF Masked(symbols, m) = <<>> THEN "opt_collect"
                                                        ELSE "opt_submit"
                   /\ UNCHANGED opt_result
  /\ UNCHANGED <<aside, inputs, rng, idx, orders, base_result, harness>>

\* Mutant: a thread is started for every work item.
MaySpawn_always == TRUE

\* "ThreadPoolExecutor(max_workers=self.n_workers)": a thread is started
\* only while fewer than max_workers exist.
MaySpawn == NumThreads < NWorkers

\* executor.map submits every call before it returns: one
\* ThreadPoolExecutor.submit, which queues the work item and, when no worker
\* is idle and fewer than max_workers threads exist, starts a thread.
MapSubmit ==
  /\ pc = "opt_submit"
  /\ LET i == Len(fs) + 1
     IN  /\ fs' = Append(fs, [state |-> "pending", result |-> <<>>])
         /\ work_queue' = Append(work_queue, i)
         /\ IF idle_semaphore > 0
              THEN /\ idle_semaphore' = idle_semaphore - 1
                   /\ UNCHANGED threads
              ELSE /\ UNCHANGED idle_semaphore
                   /\ IF MaySpawn
                        THEN threads' = Append(threads,
                                               [st |-> "idle", task |-> 0])
                        ELSE UNCHANGED threads
         /\ pc' = IF i = Len(filtered_symbols) THEN "opt_collect"
                                               ELSE "opt_submit"
  /\ UNCHANGED <<aside, inputs, rng, idx, orders, base_result, filtered, executor,
                 opt_result, harness>>

\* Mutant: the work item is read but left in the queue.
QueueAfterGet_peek(q) == q

\* The queue after work_queue.get() took its head.
QueueAfterGet(q) == Tail(q)

\* A worker thread's work_queue.get: the None sentinel ends the thread (it
\* puts the sentinel back for the others); a cancelled work item is dropped;
\* any other work item starts running.
WorkerGet(w) ==
  /\ threads[w].st = "idle"
  /\ work_queue # <<>>
  /\ LET item == Head(work_queue)
     IN  IF item = 0
           THEN /\ threads' = [threads EXCEPT ![w].st = "exited"]
                /\ UNCHANGED <<work_queue, fs, idle_semaphore>>
           ELSE /\ work_queue' = QueueAfterGet(work_queue)
                /\ IF fs[item].state = "cancelled"
                     THEN /\ idle_semaphore' = idle_semaphore + 1
                          /\ UNCHANGED <<threads, fs>>
                     ELSE /\ fs' = [fs EXCEPT ![item].state = "running"]
                          /\ threads' = [threads EXCEPT
                                           ![w] = [st |-> "run", task |-> item]]
                          /\ UNCHANGED idle_semaphore
  /\ UNCHANGED <<aside, inputs, rng, pc, idx, orders, base_result, filtered,
                 executor, opt_result, harness>>

\* Mutant: the arguments of a call are kept in one place the workers share,
\* so a worker synthesizes the entry of the call that started last.
TaskOutcome_shared_args(i, rand) ==
  LET running == {j \in DOMAIN fs : fs[j].state = "running"}
      n == CHOOSE j \in running : \A k \in running : k <= j
  IN  [state |-> "finished",
       result |-> <<Optimized_prepare_order(
                      filtered_symbols[n], filtered_diffs[n],
                      filtered_current[n], filtered_target[n], rand)>>]

\* What a worker stores in the future of the entry it runs: the order of
\* self._prepare_order(filtered_symbols[i], filtered_diffs[i],
\* filtered_current[i], filtered_target[i]), or the exception it raised.
TaskOutcome(i, rand) ==
  IF filtered_symbols[i] \in faulty
    THEN [state |-> "failed", result |-> <<>>]
    ELSE [state |-> "finished",
          result |-> <<Optimized_prepare_order(
                         filtered_symbols[i], filtered_diffs[i],
                         filtered_current[i], filtered_target[i], rand)>>]

\* Mutant: every worker writes its outcome to one shared slot.
TaskSlot_shared(i) == 1

\* The future a worker running entry i writes its outcome to.
TaskSlot(i) == i

\* A worker runs its work item to the end: one draw from the shared
\* generator (the draw itself is atomic), the result or the exception set on
\* the future, and the idle semaphore released.
WorkerRun(w) ==
  /\ threads[w].st = "run"
  /\ LET i == threads[w].task
         out == TaskOutcome(i, RandomValue(rng))
     IN  /\ fs' = [fs EXCEPT ![TaskSlot(i)] = out]
         /\ rng' = IF out.state = "finished" THEN RngAdvance(rng) ELSE rng
  /\ threads' = [threads EXCEPT ![w].st = "idle"]
  /\ idle_semaphore' = idle_semaphore + 1
  /\ UNCHANGED <<aside, inputs, pc, idx, orders, base_result, filtered, executor,
                 work_queue, opt_result, harness>>

\* Mutant: the results are taken from the last submitted future backwards.
CollectIndex_reversed(n) == Len(fs) + 1 - n

\* The future whose result the iterator of executor.map yields n-th: the
\* n-th submitted.
CollectIndex(n) == n

\* list(executor.map(...)) takes the next future's result, in submission
\* order, waiting until it is set.  A future that holds an exception raises
\* it here: the iterator cancels the futures not yet taken and the exception
\* leaves the with block.
MapCollect ==
  /\ pc = "opt_collect"
  /\ Len(orders) < Len(fs)
  /\ LET k == CollectIndex(Len(orders) + 1)
     IN  /\ k \in DOMAIN fs
         /\ fs[k].state \in {"finished", "failed"}
         /\ IF fs[k].state = "finished"
              THEN /\ orders' = Append(orders, fs[k].result[1])
                   /\ UNCHANGED <<fs, pc>>
              ELSE /\ fs' = [j \in DOMAIN fs |->
                               IF j > k /\ fs[j].state = "pending"
                                 THEN [fs[j] EXCEPT !.state = "cancelled"]
                                 ELSE fs[j]]
                   /\ pc' = "opt_raising"
                   /\ UNCHANGED orders
  /\ UNCHANGED <<aside, inputs, rng, idx, base_result, filtered, executor,
                 work_queue, threads, idle_semaphore, opt_result, harness>>

\* Leaving the with block: executor.shutdown(wait=True) sets the shutdown
\* flag and queues the None sentinel.
ExecutorShutdown ==
  /\ pc \in {"opt_collect", "opt_raising"}
  /\ pc = "opt_collect" => Len(orders) = Len(fs)
  /\ pc' = IF pc = "opt_collect" THEN "opt_join" ELSE "opt_join_raising"
  /\ executor' = "shutdown"
  /\ work_queue' = Append(work_queue, 0)
  /\ UNCHANGED <<aside, inputs, rng, idx, orders, base_result, filtered, threads,
                 idle_semaphore, fs, opt_result, harness>>

\* Mutant: shutdown(wait=False), which joins no thread.
Joined_nowait == TRUE

\* "for t in self._threads: t.join()" has returned: every thread has ended.
Joined == \A w \in Workers : threads[w].st = "exited"

\* shutdown(wait=True) joins every thread; then rebalance returns orders, or
\* the exception of the failed entry propagates to the caller.
ExecutorJoin ==
  /\ pc \in {"opt_join", "opt_join_raising"}
  /\ Joined
  /\ opt_result' = IF pc = "opt_join"
                     THEN [kind |-> "returned", orders |-> orders]
                     ELSE [kind |-> "raised", orders |-> <<>>]
  /\ pc' = AfterOptimized
  /\ UNCHANGED <<aside, inputs, rng, idx, orders, base_result, filtered, pool,
                 harness>>

Next ==
  \/ BaselineIter
  \/ BaselineReturn
  \/ OptFilter
  \/ MapSubmit
  \/ \E w \in Workers : WorkerGet(w)
  \/ \E w \in Workers : WorkerRun(w)
  \/ MapCollect
  \/ ExecutorShutdown
  \/ ExecutorJoin

Spec == Init /\ [][Next]_vars

\* A request one of whose order syntheses raises in the parallel strategy:
\* OptimizedRebalancer._prepare_order raises for BBB.
InitFault ==
  /\ current_positions \in PositionDicts
  /\ target_allocation \in AllocationDicts
  /\ total_value \in {3 * Scale, 4 * Scale}
  /\ faulty = {"BBB"}
  /\ InitCall
  /\ NoHarness
  /\ NoAside

SpecFault == InitFault /\ [][Next]_vars

(* ------------------- benchmark_rebalancer and main -------------------- *)

\* A request as main passes it to both benchmarks.
Request(positions, allocation, total) ==
  [current_positions |-> positions, target_allocation |-> allocation,
   total_value |-> total]

\* The requests the benchmark is run on: one position of 1000 with two
\* targets of a half of 2000; a request whose entries all differ by exactly
\* 1.0 from their targets; a request with three significant entries; an
\* empty target allocation.
BenchRequests ==
  { Request([s \in {"AAA"} |-> 1000 * Scale],
            <<[symbol |-> "AAA", pct |-> Scale \div 2],
              [symbol |-> "BBB", pct |-> Scale \div 2]>>,
            2000 * Scale),
    Request([s \in {"AAA"} |-> 1 * Scale],
            <<[symbol |-> "AAA", pct |-> Scale],
              [symbol |-> "BBB", pct |-> Scale \div 2]>>,
            2 * Scale),
    Request([s \in {"AAA"} |-> 1 * Scale],
            <<[symbol |-> "BBB", pct |-> Scale \div 2],
              [symbol |-> "AAA", pct |-> Scale \div 2],
              [symbol |-> "CCC", pct |-> Scale]>>,
            8 * Scale),
    Request([s \in {"AAA"} |-> 1 * Scale], <<>>, 2 * Scale) }

\* "end - start" of a run: what the clock measured, in 1/Scale seconds.
Durations == {2, 6, 8}

RECURSIVE SumSeq(_)
SumSeq(s) == IF s = <<>> THEN 0 ELSE Head(s) + SumSeq(Tail(s))

\* np.mean(times)
Mean(ts) == SumSeq(ts) \div Len(ts)

\* "((baseline_time - optimized_time) / baseline_time) * 100"
Speedup(base, opt) == ((base - opt) * 100 * Scale) \div base

\* "if speedup >= 25.0"
MeetsTarget(speedup) == speedup >= TargetSpeedup * Scale

\* main has generated the portfolio and is about to benchmark a rebalancer;
\* the generator is at the position the seed gives it.
InitBench ==
  /\ \E r \in BenchRequests :
       /\ current_positions = r.current_positions
       /\ target_allocation = r.target_allocation
       /\ total_value = r.total_value
  /\ faulty \in {{}, {"BBB"}}
  /\ rng = Seed % RngMod
  /\ pc = "main"
  /\ idx = 1
  /\ orders = <<>>
  /\ base_result = NoResult
  /\ mask = <<>>
  /\ filtered_symbols = <<>>
  /\ filtered_diffs = <<>>
  /\ filtered_current = <<>>
  /\ filtered_target = <<>>
  /\ executor = "none"
  /\ work_queue = <<>>
  /\ threads = NoThreads
  /\ idle_semaphore = 0
  /\ fs = <<>>
  /\ opt_result = NoResult
  /\ n_runs \in 1..MaxRuns
  /\ bench = "none"
  /\ calls = 0
  /\ times = <<>>
  /\ bench_orders = None
  /\ baseline_time = None
  /\ baseline_orders = None
  /\ optimized_time = None
  /\ optimized_orders = None
  /\ verdict = "none"
  /\ rv = None
  /\ exit_status = None
  /\ NoAside

\* main calls benchmark_rebalancer, first on the baseline and then on the
\* optimized rebalancer: "times = []".
BenchEnter ==
  /\ pc \in {"main", "main_optimized"}
  /\ bench' = IF pc = "main" THEN "baseline" ELSE "optimized"
  /\ times' = <<>>
  /\ calls' = 0
  /\ bench_orders' = None
  /\ pc' = "bench_loop"
  /\ UNCHANGED <<aside, inputs, rng, idx, orders, base_result, filtered, pool,
                 opt_result, n_runs, baseline_time, baseline_orders,
                 optimized_time, optimized_orders, verdict, rv, exit_status>>

\* Mutant: the loop makes one run more than asked.
MoreRuns_inclusive == calls <= n_runs

\* "for _ in range(n_runs)": another run is due.
MoreRuns == calls < n_runs

\* The loop starts a run: the clock is read and rebalancer.rebalance is
\* called with the arguments of the benchmark, in a frame of its own.
BenchLoop ==
  /\ pc = "bench_loop"
  /\ MoreRuns
  /\ calls' = calls + 1
  /\ pc' = IF bench = "baseline" THEN "base_loop" ELSE "opt_filter"
  /\ idx' = 1
  /\ orders' = <<>>
  /\ base_result' = NoResult
  /\ opt_result' = NoResult
  /\ mask' = <<>>
  /\ filtered_symbols' = <<>>
  /\ filtered_diffs' = <<>>
  /\ filtered_current' = <<>>
  /\ filtered_target' = <<>>
  /\ executor' = "none"
  /\ fs' = <<>>
  /\ UNCHANGED <<aside, inputs, rng, work_queue, threads, idle_semaphore, n_runs,
                 bench, times, bench_orders, baseline_time, baseline_orders,
                 optimized_time, optimized_orders, verdict, rv, exit_status>>

\* Mutant: the orders of all runs so far are counted.
OrderCount_accumulated(batch) == Len(batch) * calls

\* "order_count = len(orders)"
OrderCount(batch) == Len(batch)

\* Mutant: a run that delivers no order is treated as a failed run.
Raised_or_empty(result) == result.kind # "returned" \/ result.orders = <<>>

\* The call did not return: an exception left rebalancer.rebalance.
Raised(result) == result.kind # "returned"

\* What the call of this run handed back.
CallResult == IF bench = "baseline" THEN base_result ELSE opt_result

\* The call is over.  When it returned, the clock is read again and the
\* duration appended; when it raised, nothing catches the exception: it
\* leaves benchmark_rebalancer and main, and the interpreter ends with a
\* traceback and status 1.
BenchRecord ==
  /\ pc = "bench_return"
  /\ IF ~Raised(CallResult)
       THEN /\ bench_orders' = CallResult.orders
            /\ \E d \in Durations : times' = Append(times, d)
            /\ pc' = "bench_loop"
            /\ UNCHANGED exit_status
       ELSE /\ pc' = "crashed"
            /\ exit_status' = 1
            /\ UNCHANGED <<times, bench_orders>>
  /\ UNCHANGED <<aside, inputs, rng, idx, orders, base_result, filtered, pool,
                 opt_result, n_runs, bench, calls, baseline_time,
                 baseline_orders, optimized_time, optimized_orders, verdict,
                 rv>>

\* After the loop: "avg_time = np.mean(times)", "order_count = len(orders)"
\* and the pair is returned to main, which keeps it.
BenchFinish ==
  /\ pc = "bench_loop"
  /\ ~MoreRuns
  /\ LET avg_time == Mean(times)
         order_count == OrderCount(bench_orders)
     IN  IF bench = "baseline"
           THEN /\ baseline_time' = avg_time
                /\ baseline_orders' = order_count
                /\ pc' = "main_optimized"
                /\ UNCHANGED <<optimized_time, optimized_orders>>
           ELSE /\ optimized_time' = avg_time
                /\ optimized_orders' = order_count
                /\ pc' = "main_report"
                /\ UNCHANGED <<baseline_time, baseline_orders>>
  /\ UNCHANGED <<aside, inputs, rng, idx, orders, base_result, filtered, pool,
                 opt_result, n_runs, bench, calls, times, bench_orders,
                 verdict, rv, exit_status>>

\* main computes the speedup, prints PASS or FAIL and returns 0 or 1.
MainReport ==
  /\ pc = "main_report"
  /\ LET speedup == Speedup(baseline_time, optimized_time)
     IN  IF MeetsTarget(speedup)
           THEN verdict' = "PASS" /\ rv' = 0
           ELSE verdict' = "FAIL" /\ rv' = 1
  /\ pc' = "main_returned"
  /\ UNCHANGED <<aside, inputs, rng, idx, orders, base_result, filtered, pool,
                 opt_result, n_runs, bench, calls, times, bench_orders,
                 baseline_time, baseline_orders, optimized_time,
                 optimized_orders, exit_status>>

\* main is a click command and "exit(main())" calls it in click's standalone
\* mode: click drops the value the function returned and ends the process
\* itself with status 0, so exit() is never reached.
ClickExit ==
  /\ pc = "main_returned"
  /\ exit_status' = 0
  /\ pc' = "exited"
  /\ UNCHANGED <<aside, inputs, rng, idx, orders, base_result, filtered, pool,
                 opt_result, n_runs, bench, calls, times, bench_orders,
                 baseline_time, baseline_orders, optimized_time,
                 optimized_orders, verdict, rv>>

NextBench ==
  \/ BenchEnter
  \/ BenchLoop
  \/ BaselineIter
  \/ BaselineReturn
  \/ OptFilter
  \/ MapSubmit
  \/ \E w \in Workers : WorkerGet(w)
  \/ \E w \in Workers : WorkerRun(w)
  \/ MapCollect
  \/ ExecutorShutdown
  \/ ExecutorJoin
  \/ BenchRecord
  \/ BenchFinish
  \/ MainReport
  \/ ClickExit

SpecBench == InitBench /\ [][NextBench]_vars

(* ---------------------- inference_server: /predict -------------------- *)

\* The feature names of the requests, with their rank in string order.
NameRank == [close |-> 1, rsi |-> 2]

Feature(name, value) == [name |-> name, value |-> value]

\* request.features: a dict, as the sequence of its items in insertion
\* order.  The second is the first in another key order; the last has no
\* close.
FeatureDicts ==
  { <<Feature("close", 150), Feature("rsi", 65)>>,
    <<Feature("rsi", 65), Feature("close", 150)>>,
    <<Feature("close", 151), Feature("rsi", 65)>>,
    <<Feature("rsi", 65)>> }

\* request.model_id: a registered model and one the registry does not have.
ModelIds == {"xgboost-momentum-v1", "unknown-model"}

\* The InferenceRequest bodies sent to /predict.
Requests ==
  [symbol : {"AAPL"}, model_id : ModelIds, features : FeatureDicts]

\* model.predict(feature_df)[0], in tenths: class labels, labels outside the
\* map, a value between two labels, and a negative one.
ModelOutputs == {0, 10, 17, 20, 30, 0 - 10}

\* model.predict raised (or int(prediction) did).
PredictRaises == 999

\* int(prediction): truncation toward zero.
IntOf(p) == IF p >= 0 THEN p \div 10 ELSE 0 - ((0 - p) \div 10)

\* Mutant: a label outside the map is passed on as it is.
ActionMap_no_default(label) ==
  CASE label = 0 -> "HOLD" [] label = 1 -> "BUY" [] label = 2 -> "SELL"
    [] OTHER -> "UNKNOWN"

\* "action_map.get(int(prediction), 'HOLD')" with
\* action_map = {0: 'HOLD', 1: 'BUY', 2: 'SELL'}, given int(prediction).
ActionMap(label) ==
  CASE label = 0 -> "HOLD" [] label = 1 -> "BUY" [] label = 2 -> "SELL"
    [] OTHER -> "HOLD"

\* request.features.get(name, default)
FeatureGet(features, name, default) ==
  IF \E i \in DOMAIN features : features[i].name = name
    THEN LET i == CHOOSE i \in DOMAIN features : features[i].name = name
         IN  features[i].value
    ELSE default

\* sorted(request.features.items()): the items by ascending name.
RECURSIVE SortedItems(_)
SortedItems(items) ==
  IF items = {} THEN <<>>
  ELSE LET first == CHOOSE x \in items :
                      \A y \in items : NameRank[x.name] <= NameRank[y.name]
       IN  <<first>> \o SortedItems(items \ {first})

\* hashlib.md5(...).hexdigest(), taken to be free of collisions.
Md5(s) == s

\* Mutant: the features go into the key in the order of the request.
GetCacheKey_insertion_order(r) ==
  <<"inference", Md5(<<r.features, r.model_id, r.symbol>>)>>

\* get_cache_key: json.dumps(..., sort_keys=True) of the features sorted by
\* name, the model_id and the symbol, hashed.
GetCacheKey(r) ==
  <<"inference",
    Md5(<<SortedItems({r.features[i] : i \in DOMAIN r.features}),
          r.model_id, r.symbol>>)>>

\* json.dumps(response.dict()): the fields as text, in field order.
JsonDumps(d) ==
  <<<<"symbol", d.symbol>>, <<"action", d.action>>, <<"price", d.price>>,
    <<"model_id", d.model_id>>, <<"cached", d.cached>>>>

\* json.loads(cached), then InferenceResponse(**cached_result).
JsonLoads(s) ==
  [symbol |-> s[1][2], action |-> s[2][2], price |-> s[3][2],
   model_id |-> s[4][2], cached |-> s[5][2]]

\* MODEL_CACHE_TTL, in ticks of the Redis clock.
MaxTtl == 2

\* d with key k set to v.
Put(d, k, v) == [x \in DOMAIN d \cup {k} |-> IF x = k THEN v ELSE d[x]]

\* d without the keys outside keep.
Restrict(d, keep) == [x \in DOMAIN d \cap keep |-> d[x]]

\* The server is up and waits for a request: the module has been imported,
\* with or without a Redis connection, model_cache = {}.
InitServe ==
  /\ redis_client \in {"client", "none"}
  /\ redis_db = <<>>
  /\ stored_by = <<>>
  /\ registry = {"xgboost-momentum-v1"}
  /\ model_cache = {}
  /\ request = <<>>
  /\ sv_pc = "idle"
  /\ response = <<>>
  /\ status = 0
  /\ effects = {}
  /\ current_positions = <<>>
  /\ target_allocation = <<>>
  /\ total_value = 0
  /\ faulty = {}
  /\ InitCall
  /\ NoHarness
  /\ NoBacktest
  /\ NoRiskCalc

rebalancing == <<inputs, rng, pc, idx, orders, base_result, filtered, pool,
                 opt_result, harness>>

\* A POST /predict arrives: "start_time = ...; inference_counter.inc()".
Receive ==
  /\ sv_pc = "idle"
  /\ \E r \in Requests : request' = r
  /\ sv_pc' = "check"
  /\ response' = <<>>
  /\ status' = 0
  /\ effects' = {}
  /\ UNCHANGED <<rebalancing, backtest, riskcalc, redis_client, redis_db,
                 stored_by, registry, model_cache>>

\* Mutant: an exception of redis_client.get leaves check_cache.
GetFailure_propagates == "raise"

\* What check_cache does when redis_client.get raises: "except Exception:
\* return None".
GetFailure == "miss"

\* "cached_result = check_cache(cache_key)" and "if cached_result: return
\* InferenceResponse(**cached_result)".  Without a client the lookup is a
\* miss; a get may raise; a key that is held is a hit.
CheckCache ==
  /\ sv_pc = "check"
  /\ LET cache_key == GetCacheKey(request)
     IN  IF redis_client = "none"
           THEN /\ effects' = effects \cup {"no_client"}
                /\ sv_pc' = "load"
                /\ UNCHANGED <<response, status>>
           ELSE \E ok \in BOOLEAN :
                  IF ~ok
                    THEN /\ effects' = effects \cup {"get", "get_failed"}
                         /\ IF GetFailure = "miss"
                              THEN /\ sv_pc' = "load"
                                   /\ UNCHANGED <<response, status>>
                              ELSE /\ sv_pc' = "idle"
                                   /\ status' = 500
                                   /\ UNCHANGED response
                    ELSE IF cache_key \in DOMAIN redis_db
                           THEN /\ effects' = effects \cup {"get", "hit"}
                                /\ response' =
                                     JsonLoads(redis_db[cache_key].value)
                                /\ status' = 200
                                /\ sv_pc' = "idle"
                           ELSE /\ effects' = effects \cup {"get", "miss"}
                                /\ sv_pc' = "load"
                                /\ UNCHANGED <<response, status>>
  /\ UNCHANGED <<rebalancing, backtest, riskcalc, redis_client, redis_db,
                 stored_by, registry, model_cache, request>>

\* "model = load_model(request.model_id)": the cached model, or the one the
\* registry loads, which is then cached.  When the load raises, load_model
\* raises HTTPException(404); predict's "except Exception" catches it and
\* raises HTTPException(500).
LoadModel ==
  /\ sv_pc = "load"
  /\ IF request.model_id \in model_cache
       THEN /\ sv_pc' = "predict"
            /\ effects' = effects \cup {"model_cached"}
            /\ UNCHANGED <<model_cache, status>>
       ELSE IF request.model_id \in registry
              THEN /\ model_cache' = model_cache \cup {request.model_id}
                   /\ effects' = effects \cup {"load"}
                   /\ sv_pc' = "predict"
                   /\ UNCHANGED status
              ELSE /\ effects' = effects \cup {"load", "load_failed"}
                   /\ status' = 500
                   /\ sv_pc' = "idle"
                   /\ UNCHANGED model_cache
  /\ UNCHANGED <<rebalancing, backtest, riskcalc, redis_client, redis_db,
                 stored_by, registry, request, response>>

\* "prediction = model.predict(feature_df)[0]" up to the InferenceResponse:
\* the action of the prediction and the close as price.  An exception of
\* the model or of int() ends the request with 500.
Predict ==
  /\ sv_pc = "predict"
  /\ \E prediction \in ModelOutputs \cup {PredictRaises} :
       IF prediction = PredictRaises
         THEN /\ effects' = effects \cup {"predict", "predict_failed"}
              /\ status' = 500
              /\ sv_pc' = "idle"
              /\ UNCHANGED response
         ELSE /\ effects' = effects \cup {"predict"}
              /\ response' = [symbol |-> request.symbol,
                              action |-> ActionMap(IntOf(prediction)),
                              price |-> FeatureGet(request.features, "close", 0),
                              model_id |-> request.model_id,
                              cached |-> FALSE]
              /\ sv_pc' = "store"
              /\ UNCHANGED status
  /\ UNCHANGED <<rebalancing, backtest, riskcalc, redis_client, redis_db,
                 stored_by, registry, model_cache, request>>

\* "set_cache(cache_key, response.dict())" and "return response".  Without a
\* client nothing is written; a setex that raises is logged and dropped.
SetCache ==
  /\ sv_pc = "store"
  /\ LET cache_key == GetCacheKey(request)
     IN  IF redis_client = "none"
           THEN UNCHANGED <<redis_db, stored_by, effects>>
           ELSE \E ok \in BOOLEAN :
                  IF ok
                    THEN /\ redis_db' =
                              Put(redis_db, cache_key,
                                  [value |-> JsonDumps(response),
                                   ttl |-> MaxTtl])
                         /\ stored_by' =
                              Put(stored_by, cache_key, request.features)
                         /\ effects' = effects \cup {"setex"}
                    ELSE /\ effects' = effects \cup {"setex", "setex_failed"}
                         /\ UNCHANGED <<redis_db, stored_by>>
  /\ status' = 200
  /\ sv_pc' = "idle"
  /\ UNCHANGED <<rebalancing, backtest, riskcalc, redis_client, registry,
                 model_cache, request, response>>

\* The Redis clock ticks: every key is one tick nearer its expiry, and a key
\* whose time is up is gone.
Tick ==
  /\ DOMAIN redis_db # {}
  /\ LET alive == {k \in DOMAIN redis_db : redis_db[k].ttl > 1}
     IN  /\ redis_db' = [k \in alive |->
                           [redis_db[k] EXCEPT !.ttl = redis_db[k].ttl - 1]]
         /\ stored_by' = Restrict(stored_by, alive)
  /\ UNCHANGED <<rebalancing, backtest, riskcalc, redis_client, registry,
                 model_cache, request, sv_pc, response, status, effects>>

NextServe ==
  \/ Receive
  \/ CheckCache
  \/ LoadModel
  \/ Predict
  \/ SetCache
  \/ Tick

SpecServe == InitServe /\ [][NextServe]_vars

(* ------------------ BacktestEngine.generate_signals ------------------- *)

\* Periods of the longest ohlcv frame.
MaxPeriods == 4

\* The short rolling window (20 in the code) and the long one (50).
ShortWindow == 2

LongWindow == 3

\* Prices are floats with two decimals: the float p is stored as p * Cents.
Cents == 100

\* The float nan.
NaN == 0 - 1000000

\* The rows of an ohlcv frame: close, high and low of a period.
Bars ==
  { [close |-> 10 * Cents, high |-> 11 * Cents, low |-> 9 * Cents],
    [close |-> 12 * Cents, high |-> 13 * Cents, low |-> 11 * Cents],
    [close |-> 8 * Cents, high |-> 9 * Cents, low |-> 7 * Cents],
    [close |-> 14 * Cents, high |-> 14 * Cents, low |-> 13 * Cents] }

\* The ohlcv frames, of every length up to MaxPeriods.
Frames == UNION {[1..n -> Bars] : n \in 0..MaxPeriods}

\* A column of a frame.
Column(frame, name) ==
  [i \in DOMAIN frame |->
     IF name = "close" THEN frame[i].close
     ELSE IF name = "high" THEN frame[i].high ELSE frame[i].low]

\* The last w values of xs up to position i.
Window(xs, i, w) == {i - w + 1 + n : n \in 0..(w - 1)}

RECURSIVE SumOver(_, _)
SumOver(xs, positions) ==
  IF positions = {} THEN 0
  ELSE LET n == CHOOSE x \in positions : TRUE
       IN  xs[n] + SumOver(xs, positions \ {n})

\* The mean of xs over a set of positions.
MeanOver(xs, positions) == SumOver(xs, positions) \div Cardinality(positions)

\* The largest r with r * r <= n: the square root, rounded down.
ISqrt(n) == CHOOSE r \in 0..(14 * Cents) : r * r <= n /\ n < (r + 1) * (r + 1)

\* Series.rolling(window=w).mean(): nan until w values are there.
RollingMean(xs, w) ==
  [i \in DOMAIN xs |->
     IF i < w THEN NaN ELSE MeanOver(xs, Window(xs, i, w))]

\* Series.rolling(window=w).std(): the sample standard deviation.
RollingStd(xs, w) ==
  [i \in DOMAIN xs |->
     IF i < w THEN NaN
     ELSE LET m == MeanOver(xs, Window(xs, i, w))
              sq == [n \in DOMAIN xs |-> (xs[n] - m) * (xs[n] - m)]
          IN  ISqrt(SumOver(sq, Window(xs, i, w)) \div (w - 1))]

\* Series.rolling(window=w).max() and .min()
RollingMax(xs, w) ==
  [i \in DOMAIN xs |->
     IF i < w THEN NaN
     ELSE CHOOSE m \in {xs[n] : n \in Window(xs, i, w)} :
            \A n \in Window(xs, i, w) : xs[n] <= m]

RollingMin(xs, w) ==
  [i \in DOMAIN xs |->
     IF i < w THEN NaN
     ELSE CHOOSE m \in {xs[n] : n \in Window(xs, i, w)} :
            \A n \in Window(xs, i, w) : m <= xs[n]]

\* Series.shift(1)
Shift1(xs) == [i \in DOMAIN xs |-> IF i = 1 THEN NaN ELSE xs[i - 1]]

\* a + k * b and a - k * b on floats: nan when an operand is nan.
AddMul(a, k, b) == IF a = NaN \/ b = NaN THEN NaN ELSE a + k * b

SubMul(a, k, b) == IF a = NaN \/ b = NaN THEN NaN ELSE a - k * b

\* Mutant: nan compares like 0.0.
Gt_nan_as_zero(a, b) ==
  (IF a = NaN THEN 0 ELSE a) > (IF b = NaN THEN 0 ELSE b)

\* a > b on floats: False when an operand is nan.
Gt(a, b) == a # NaN /\ b # NaN /\ a > b

\* a < b on floats.
Lt(a, b) == Gt(b, a)

\* The rows where the strategy says buy.
BuyMask(frame, strat) ==
  LET close == Column(frame, "close")
  IN  IF strat = "momentum"
        THEN [i \in DOMAIN frame |->
                Gt(RollingMean(close, ShortWindow)[i],
                   RollingMean(close, LongWindow)[i])]
      ELSE IF strat = "mean_reversion"
        THEN [i \in DOMAIN frame |->
                Lt(close[i],
                   SubMul(RollingMean(close, ShortWindow)[i], 2,
                          RollingStd(close, ShortWindow)[i]))]
      ELSE [i \in DOMAIN frame |->
              Gt(close[i],
                 Shift1(RollingMax(Column(frame, "high"), LongWindow))[i])]

\* The rows where the strategy says sell.
SellMask(frame, strat) ==
  LET close == Column(frame, "close")
  IN  IF strat = "momentum"
        THEN [i \in DOMAIN frame |->
                Lt(RollingMean(close, ShortWindow)[i],
                   RollingMean(close, LongWindow)[i])]
      ELSE IF strat = "mean_reversion"
        THEN [i \in DOMAIN frame |->
                Gt(close[i],
                   AddMul(RollingMean(close, ShortWindow)[i], 2,
                          RollingStd(close, ShortWindow)[i]))]
      ELSE [i \in DOMAIN frame |->
              Lt(close[i],
                 Shift1(RollingMin(Column(frame, "low"), LongWindow))[i])]

\* "signals[mask] = value"
Assign(series, where, value) ==
  [i \in DOMAIN series |-> IF where[i] THEN value ELSE series[i]]

\* "signals.fillna(0)"
FillNa(series) ==
  [i \in DOMAIN series |-> IF series[i] = NaN THEN 0 ELSE series[i]]

\* The Series generate_signals returns for one of its three strategies.
Signals(frame, strat) ==
  LET zeros == [i \in DOMAIN frame |-> 0]
      bought == Assign(zeros, BuyMask(frame, strat), 1)
      sold == Assign(bought, SellMask(frame, strat), 0 - 1)
  IN  FillNa(sold)

Strategies == {"momentum", "mean_reversion", "breakout"}

\* generate_signals is called on a frame with a strategy name.
InitBacktest ==
  /\ ohlcv \in Frames
  /\ strategy \in Strategies \cup {"unknown"}
  /\ signals = <<>>
  /\ bt_pc = "called"
  /\ current_positions = <<>>
  /\ target_allocation = <<>>
  /\ total_value = 0
  /\ faulty = {}
  /\ InitCall
  /\ NoHarness
  /\ NoServer
  /\ NoRiskCalc

\* generate_signals runs: the Series of the strategy is returned, or
\* ValueError is raised for a strategy it does not know.
GenerateSignals ==
  /\ bt_pc = "called"
  /\ IF strategy \in Strategies
       THEN /\ signals' = Signals(ohlcv, strategy)
            /\ bt_pc' = "returned"
       ELSE /\ bt_pc' = "raised"
            /\ UNCHANGED signals
  /\ UNCHANGED <<rebalancing, server, riskcalc, ohlcv, strategy>>

NextBacktest == GenerateSignals

SpecBacktest == InitBacktest /\ [][NextBacktest]_vars

(* ------------- _calculate_risk in floating-point arithmetic ----------- *)

\* Bits of the significand of a float (53 in the build's doubles).
PrecBits == 3

\* The largest binary exponent of a quantity.
MaxExp == 1

\* A float is <<m, e>>, the number m * 2^e, with m = 0 or
\* 2^(PrecBits-1) <= m < 2^PrecBits.
Zero == <<0, 0>>

RECURSIVE BitLen(_)
BitLen(n) == IF n = 0 THEN 0 ELSE 1 + BitLen(n \div 2)

\* The float nearest to n * 2^e, ties to the even significand.
Round(n, e) ==
  IF n = 0 THEN Zero
  ELSE LET len == BitLen(n)
       IN  IF len <= PrecBits
             THEN <<n * 2^(PrecBits - len), e - (PrecBits - len)>>
           ELSE LET s == len - PrecBits
                    q == n \div 2^s
                    r == n % 2^s
                    half == 2^(s - 1)
                    m == IF r > half \/ (r = half /\ q % 2 = 1)
                           THEN q + 1 ELSE q
                IN  IF m = 2^PrecBits
                      THEN <<2^(PrecBits - 1), e + s + 1>>
                    ELSE <<m, e + s>>

\* a * b on floats
FloatMul(a, b) == Round(a[1] * b[1], a[2] + b[2])

\* a <= b and a < b on floats
FloatLe(a, b) ==
  LET lo == IF a[2] < b[2] THEN a[2] ELSE b[2]
  IN  a[1] * 2^(a[2] - lo) <= b[1] * 2^(b[2] - lo)

FloatLt(a, b) == FloatLe(a, b) /\ ~FloatLe(b, a)

\* The float literal 0.01
Coef == Round(2^20 \div RiskCoefInv, 0 - 20)

\* What np.random.random() can return: the multiples of 2^-PrecBits in [0, 1).
Draws == {Round(k, 0 - PrecBits) : k \in 0..(2^PrecBits - 1)}

\* The largest draw.
MaxDraw == Round(2^PrecBits - 1, 0 - PrecBits)

\* The quantities of an order: abs(diff) / 100.0 with abs(diff) > 100.
Quantities ==
  {<<m, e>> : m \in (2^(PrecBits - 1))..(2^PrecBits - 1), e \in 0..MaxExp}

\* Mutant: the draw times the quantity, without the coefficient.
RiskScore_no_coefficient(rand, quantity) == FloatMul(rand, quantity)

\* "np.random.random() * quantity * 0.01": two products, left to right.
RiskScore(rand, quantity) == FloatMul(FloatMul(rand, quantity), Coef)

\* _prepare_order has computed the quantity of an order.
InitRisk ==
  /\ fl_quantity \in Quantities
  /\ fl_rand = <<>>
  /\ fl_risk = <<>>
  /\ fl_pc = "prepare"
  /\ current_positions = <<>>
  /\ target_allocation = <<>>
  /\ total_value = 0
  /\ faulty = {}
  /\ InitCall
  /\ NoHarness
  /\ NoServer
  /\ NoBacktest

\* BaselineRebalancer._calculate_risk
CalculateRisk ==
  /\ fl_pc = "prepare"
  /\ \E rand \in Draws :
       /\ fl_rand' = rand
       /\ fl_risk' = RiskScore(rand, fl_quantity)
  /\ fl_pc' = "baseline"
  /\ UNCHANGED <<rebalancing, server, backtest, fl_quantity>>

\* OptimizedRebalancer._calculate_risk_vectorized
CalculateRiskVectorized ==
  /\ fl_pc = "prepare"
  /\ \E rand \in Draws :
       /\ fl_rand' = rand
       /\ fl_risk' = RiskScore(rand, fl_quantity)
  /\ fl_pc' = "optimized"
  /\ UNCHANGED <<rebalancing, server, backtest, fl_quantity>>

NextRisk == CalculateRisk \/ CalculateRiskVectorized

SpecRisk == InitRisk /\ [][NextRisk]_vars

(* ======================== properties of the code ====================== *)

\* An order without its risk_score.
Strip(o) == <<o.symbol, o.side, o.quantity, o.current_value, o.target_value>>

StripSet(batch) == {Strip(batch[i]) : i \in DOMAIN batch}

\* How often a stripped order occurs in a batch.
Count(batch, t) == Cardinality({i \in DOMAIN batch : Strip(batch[i]) = t})

\* The orders of a batch that name a symbol.
OrdersFor(batch, s) == {i \in DOMAIN batch : batch[i].symbol = s}

\* Both calls have returned a batch.
BothReturned ==
  pc = "done" /\ base_result.kind = "returned" /\ opt_result.kind = "returned"

Batches == {base_result.orders, opt_result.orders}

\* abs(total_value * weight - current_value) of the i-th target entry,
\* computed from the request alone.
EntryDiff(i) ==
  FMul(total_value, target_allocation[i].pct)
    - Get(current_positions, target_allocation[i].symbol, 0)

\* C1: once both strategies have returned on the same request, every
\* (symbol, side, quantity, current_value, target_value) tuple occurs equally
\* often in the sequential and in the parallel batch.
C1_SameMultiset ==
  pc = "done" =>
    /\ BothReturned
    /\ \A t \in StripSet(base_result.orders) \cup StripSet(opt_result.orders) :
         Count(base_result.orders, t) = Count(opt_result.orders, t)

\* C1 witness: both returned at least two orders, and the batches differ in
\* a risk_score.
C1_Witness ==
  /\ BothReturned
  /\ Len(base_result.orders) >= 2
  /\ \E i \in DOMAIN base_result.orders :
       \A j \in DOMAIN opt_result.orders :
         base_result.orders[i] # opt_result.orders[j]

\* C2: in the batch of either strategy, a target entry with
\* abs(diff) <= 1.0 has no order and one with abs(diff) > 1.0 has exactly one.
C2_Threshold ==
  pc = "done" =>
    \A b \in Batches : \A i \in DOMAIN target_allocation :
      Cardinality(OrdersFor(b, target_allocation[i].symbol))
        = IF Abs(EntryDiff(i)) > Scale THEN 1 ELSE 0

\* C2 witness: a request with an entry whose diff is exactly 1.0, an entry
\* whose diff is exactly -1.0 and an entry above the threshold.
C2_Witness ==
  /\ BothReturned
  /\ \E i, j, k \in DOMAIN target_allocation :
       /\ EntryDiff(i) = Scale
       /\ EntryDiff(j) = 0 - Scale
       /\ Abs(EntryDiff(k)) > Scale
       /\ OrdersFor(opt_result.orders, target_allocation[k].symbol) # {}

\* C3: every order is a buy when target_value - current_value > 0 and a
\* sell when it is < 0, and an entry whose diff is 0 has no order.
C3_Side ==
  \A b \in Batches :
    /\ \A n \in DOMAIN b :
         LET diff == b[n].target_value - b[n].current_value
         IN  /\ diff > 0 => b[n].side = "buy"
             /\ diff < 0 => b[n].side = "sell"
             /\ diff # 0
    /\ \A i \in DOMAIN target_allocation :
         EntryDiff(i) = 0 => OrdersFor(b, target_allocation[i].symbol) = {}

\* C3 witness: both batches hold a buy and a sell, and the request has an
\* entry whose diff is 0.
C3_Witness ==
  /\ BothReturned
  /\ \A b \in Batches : \E m, n \in DOMAIN b :
       b[m].side = "buy" /\ b[n].side = "sell"
  /\ \E i \in DOMAIN target_allocation : EntryDiff(i) = 0

\* C4: every order has quantity = abs(target_value - current_value) / 100,
\* which is more than 0.01.
C4_Quantity ==
  \A b \in Batches : \A n \in DOMAIN b :
    /\ b[n].quantity * 100 = Abs(b[n].target_value - b[n].current_value)
    /\ b[n].quantity * 100 > Scale

\* C4 witness: both batches hold a sell, whose diff is negative.
C4_Witness ==
  /\ BothReturned
  /\ \A b \in Batches : \E n \in DOMAIN b :
       b[n].side = "sell" /\ b[n].target_value < b[n].current_value

\* The weight the target allocation gives a symbol.
WeightOf(s) ==
  (CHOOSE e \in {target_allocation[i] : i \in DOMAIN target_allocation} :
     e.symbol = s).pct

\* C5: in every order, current_value is the symbol's value in positions (0
\* when it is not held) and target_value is total_value times its weight.
C5_Values ==
  \A b \in Batches : \A n \in DOMAIN b :
    /\ b[n].current_value
         = IF b[n].symbol \in DOMAIN current_positions
             THEN current_positions[b[n].symbol] ELSE 0
    /\ b[n].target_value * Scale = total_value * WeightOf(b[n].symbol)

\* C5 witness: total_value is not the sum of the held values, and both
\* batches hold an order of a symbol that is not held and an order of one
\* that is.
C5_Witness ==
  /\ BothReturned
  /\ total_value # SumValues(current_positions, DOMAIN current_positions)
  /\ \A b \in Batches : \E m, n \in DOMAIN b :
       /\ b[m].symbol \notin DOMAIN current_positions
       /\ b[n].symbol \in DOMAIN current_positions

\* C6: every order of either strategy names a key of the target allocation.
C6_OnlyTargeted ==
  \A b \in Batches : \A n \in DOMAIN b :
    \E i \in DOMAIN target_allocation : target_allocation[i].symbol = b[n].symbol

\* C6 witness: a symbol held at 3.0 has no target; both strategies returned
\* orders, none of them for that symbol.
C6_Witness ==
  /\ BothReturned
  /\ \E s \in DOMAIN current_positions :
       /\ current_positions[s] = 3 * Scale
       /\ \A i \in DOMAIN target_allocation : target_allocation[i].symbol # s
       /\ \A b \in Batches : b # <<>> /\ OrdersFor(b, s) = {}

\* The request is one the specification calls invalid.
InvalidRequest == total_value <= 0 \/ target_allocation = <<>>

\* C7: a request with total_value <= 0 or an empty target allocation is
\* rejected: neither strategy returns an order batch for it.
C7_InvalidRejected ==
  InvalidRequest =>
    base_result.kind # "returned" /\ opt_result.kind # "returned"

\* The futures whose synthesis raised, and those that delivered an order.
Failed == {k \in DOMAIN fs : fs[k].state = "failed"}

Finished == {k \in DOMAIN fs : fs[k].state = "finished"}

\* C8: when the synthesis of an entry raised, the parallel rebalance call
\* still returns, and its batch holds the order of every entry whose
\* synthesis succeeded.
C8_PartialResult ==
  (pc = "done" /\ Failed # {}) =>
    /\ opt_result.kind = "returned"
    /\ \A k \in Finished :
         \E n \in DOMAIN opt_result.orders : opt_result.orders[n] = fs[k].result[1]

\* The stripped orders the request calls for, computed from the request
\* alone: one per target entry whose abs(diff) is above 1.0.
ExpectedTuples ==
  {<<target_allocation[i].symbol,
     IF EntryDiff(i) > 0 THEN "buy" ELSE "sell",
     Abs(EntryDiff(i)) \div 100,
     Get(current_positions, target_allocation[i].symbol, 0),
     FMul(total_value, target_allocation[i].pct)>> :
     i \in {j \in DOMAIN target_allocation : Abs(EntryDiff(j)) > Scale}}

\* C9: whatever the interleaving of the workers, the parallel call returns
\* exactly the stripped orders the request calls for, each once.
C9_ScheduleIndependent ==
  (pc = "done" /\ opt_result.kind = "returned") =>
    /\ StripSet(opt_result.orders) = ExpectedTuples
    /\ Len(opt_result.orders) = Cardinality(ExpectedTuples)

\* C9 witness: the call returned two orders or more and the first order of
\* the batch got the last draw of the generator, not the first.
C9_Witness ==
  /\ pc = "done"
  /\ Len(opt_result.orders) >= 2
  /\ opt_result.orders[1].risk_score
       = RandomValue((rng + RngMod - 1) % RngMod) * opt_result.orders[1].quantity

\* The fan-out phase of the parallel call.
FanOut == pc \in {"opt_submit", "opt_collect", "opt_raising", "opt_join",
                  "opt_join_raising"}

\* Worker w is running entry k before or after the step.
Holds(w, k) ==
  \/ threads[w].st = "run" /\ threads[w].task = k
  \/ threads'[w].st = "run" /\ threads'[w].task = k

\* C10: in a step of the fan-out phase the request and the filtered arrays
\* are not written, a future changes only by the worker that runs its entry
\* (or by the caller cancelling it), and a worker that ends its entry writes
\* nothing of the caller's but that entry's future.
C10_WorkerWrites ==
  [][FanOut =>
       /\ UNCHANGED <<current_positions, target_allocation, total_value>>
       /\ UNCHANGED filtered
       /\ \A k \in DOMAIN fs :
            fs'[k] # fs[k] =>
              \/ \E w \in Workers : Holds(w, k)
              \/ fs[k].state = "pending" /\ fs'[k].state = "cancelled"
       /\ \A w \in Workers :
            (threads[w].st = "run" /\ threads'[w].st # "run") =>
              UNCHANGED <<orders, base_result, opt_result, work_queue>>
    ]_vars

\* C10 witness: two workers have each finished an entry of their own, so
\* both have drawn from the generator.
C10_Witness ==
  /\ FanOut
  /\ \E v, w \in Workers :
       /\ v # w
       /\ threads[v].task # 0 /\ threads[w].task # 0
       /\ threads[v].st = "idle" /\ threads[w].st = "idle"
       /\ fs[threads[v].task].state = "finished"
       /\ fs[threads[w].task].state = "finished"

\* The parallel call of the current run has returned or raised.
OptimizedOver == opt_result.kind # "none"

\* A future that will not run (again): it holds a result or an exception,
\* or it was cancelled before a worker took it.
Settled(k) == fs[k].state \in {"finished", "failed", "cancelled"}

\* C11: when the parallel rebalance call is over, by return or by
\* exception, its executor is shut down, every task it submitted is settled
\* and every worker thread of the call has ended; and a call that creates
\* its pool finds every thread of the earlier call ended and starts with no
\* thread at all.
C11_PoolScoped ==
  /\ [](OptimizedOver =>
         /\ executor \in {"none", "shutdown"}
         /\ \A k \in DOMAIN fs : Settled(k)
         /\ \A w \in Workers : threads[w].st = "exited")
  /\ [][(executor # "active" /\ executor' = "active") =>
          /\ \A w \in Workers : threads[w].st = "exited"
          /\ threads' = <<>>
          /\ work_queue' = <<>>
       ]_vars

\* C11 witness: the second parallel call of a benchmark is over; it used
\* all its workers, and the first call had used workers too.
C11_Witness ==
  /\ bench = "optimized"
  /\ calls = 2
  /\ OptimizedOver
  /\ Len(threads) = NWorkers
  /\ Len(times) = 1

\* The places that hold the work item of entry k: positions of the work
\* queue and workers running it.
Copies(k) ==
  Cardinality({n \in DOMAIN work_queue : work_queue[n] = k})
    + Cardinality({w \in Workers : threads[w].st = "run" /\ threads[w].task = k})

\* The entries the filter kept.
Kept == {i \in DOMAIN mask : mask[i]}

\* C12: in the fan-out phase the work item of an entry is in one place only:
\* queued while pending, held by a single worker while running, nowhere
\* once it has run; an entry that has delivered its order is not run again;
\* and the batch the call returns has one order per entry the mask kept.
C12_OncePerEntry ==
  /\ [](FanOut =>
         \A k \in DOMAIN fs :
           /\ fs[k].state \in {"pending", "running"} => Copies(k) = 1
           /\ fs[k].state \in {"finished", "failed"} => Copies(k) = 0
           /\ fs[k].state = "cancelled" => Copies(k) <= 1)
  /\ [][FanOut =>
          \A k \in DOMAIN fs : fs[k].state = "finished" => fs'[k] = fs[k]
       ]_vars
  /\ [](opt_result.kind = "returned" =>
         /\ Len(opt_result.orders) = Cardinality(Kept)
         /\ executor # "none" =>
              /\ Len(fs) = Cardinality(Kept)
              /\ \A k \in DOMAIN fs : fs[k].state = "finished")

\* C12 witness: a parallel call returned three orders, and two workers of
\* its pool each ran an entry.
C12_Witness ==
  /\ opt_result.kind = "returned"
  /\ Len(opt_result.orders) = 3
  /\ \E v, w \in Workers :
       v # w /\ threads[v].task # 0 /\ threads[w].task # 0

\* The workers that are synthesizing an order.
Running == {w \in Workers : threads[w].st = "run"}

\* C13: at no time do more than n_workers workers synthesize an order, and
\* the pool never has more than n_workers threads.
C13_BoundedConcurrency ==
  /\ Cardinality(Running) <= NWorkers
  /\ Cardinality({k \in DOMAIN fs : fs[k].state = "running"}) <= NWorkers
  /\ Len(threads) <= NWorkers

\* C13 witness: n_workers syntheses are running while another submitted
\* entry waits in the queue.
C13_Witness ==
  /\ Cardinality(Running) = NWorkers
  /\ \E n \in DOMAIN work_queue : work_queue[n] # 0

\* C14: no step of a rebalance call of either strategy, on the calling
\* thread or on a worker, changes current_positions, target_allocation or
\* total_value.
C14_InputsUntouched ==
  [][UNCHANGED <<current_positions, target_allocation, total_value>>]_vars

\* C14 witness: both strategies have been benchmarked and each delivered an
\* order for BBB, a symbol that is still no key of current_positions.
C14_Witness ==
  /\ pc = "main_report"
  /\ baseline_orders > 0
  /\ optimized_orders > 0
  /\ OrdersFor(bench_orders, "BBB") # {}
  /\ "BBB" \notin DOMAIN current_positions

\* A rebalance call of the benchmark is in progress.
InCall == pc \in {"base_loop", "opt_filter", "opt_submit", "opt_collect",
                  "opt_raising", "opt_join", "opt_join_raising",
                  "bench_return"}

\* avg is the arithmetic mean of ts, to the resolution of the model's floats.
IsMean(avg, ts) ==
  /\ Len(ts) * avg <= SumSeq(ts)
  /\ SumSeq(ts) < Len(ts) * (avg + 1)

\* C15: a benchmark starts its rebalance calls one after the other, each on
\* the request it was given, never more than n_runs of them, and records one
\* duration per call that returned; when it hands its result to main it has
\* made exactly n_runs calls and the average it returns is the arithmetic
\* mean of the n_runs durations.
C15_RunsAndMean ==
  /\ [](/\ calls <= n_runs
         /\ Len(times) = IF InCall \/ pc = "crashed" THEN calls - 1
                                                      ELSE calls)
  /\ [][calls' # calls =>
          /\ calls' = IF pc = "bench_loop" THEN calls + 1 ELSE 0
          /\ ~InCall
          /\ UNCHANGED <<current_positions, target_allocation, total_value>>
       ]_vars
  /\ [](pc = "main_optimized" =>
         /\ calls = n_runs /\ Len(times) = n_runs
         /\ IsMean(baseline_time, times))
  /\ [](pc = "main_report" =>
         /\ calls = n_runs /\ Len(times) = n_runs
         /\ IsMean(optimized_time, times))

\* C15 witness: a benchmark of two runs measured two different durations
\* and returned the value half way between them.
C15_Witness ==
  /\ pc = "main_report"
  /\ n_runs = 2
  /\ times[1] # times[2]
  /\ 2 * optimized_time = times[1] + times[2]

\* The entries of the request whose abs(diff) is above 1.0.
Significant == {j \in DOMAIN target_allocation : Abs(EntryDiff(j)) > Scale}

\* C16: every batch a run of either strategy returns has one length, the
\* number of significant entries of the request, and the order_count a
\* benchmark hands to main is the length of the batch of its last run.
C16_StableOrderCount ==
  /\ base_result.kind = "returned" =>
       Len(base_result.orders) = Cardinality(Significant)
  /\ opt_result.kind = "returned" =>
       Len(opt_result.orders) = Cardinality(Significant)
  /\ pc = "bench_loop" /\ calls > 0 =>
       /\ bench_orders = CallResult.orders
       /\ Len(bench_orders) = Cardinality(Significant)
  /\ pc = "main_optimized" =>
       /\ bench_orders = base_result.orders
       /\ baseline_orders = Len(bench_orders)
  /\ pc = "main_report" =>
       /\ bench_orders = opt_result.orders
       /\ optimized_orders = Len(bench_orders)
       /\ baseline_orders = optimized_orders

\* C16 witness: both benchmarks made two runs and each reports the three
\* orders of its second run.
C16_Witness ==
  /\ pc = "main_report"
  /\ n_runs = 2
  /\ baseline_orders = 3
  /\ optimized_orders = 3

\* C17: when the benchmark process has ended after its report, PASS was
\* printed exactly when (baseline_time - optimized_time) / baseline_time
\* * 100 is at least 25, the exit status is 0 exactly when PASS was printed,
\* and it is not 0 when FAIL was printed.
C17_ExitSignal ==
  pc = "exited" =>
    /\ verdict = "PASS" <=>
         (baseline_time - optimized_time) * 100 >= TargetSpeedup * baseline_time
    /\ exit_status = 0 <=> verdict = "PASS"
    /\ verdict = "FAIL" => exit_status # 0

\* The benchmark that is running or has just handed its result to main
\* ran on a request without a significant entry, so all its batches are
\* empty.
Degenerate == Cardinality(Significant) = 0

\* C18: a benchmark all of whose runs return an empty batch does not end in
\* an exception; it hands main the mean of its n_runs durations together
\* with order_count = 0.  A benchmark one of whose runs failed hands main
\* nothing at all, so the two outcomes cannot be confused.
C18_DegenerateReported ==
  /\ Degenerate => pc # "crashed"
  /\ (Degenerate /\ pc = "main_optimized") =>
       /\ baseline_orders = 0
       /\ Len(times) = n_runs /\ IsMean(baseline_time, times)
  /\ (Degenerate /\ pc = "main_report") =>
       /\ optimized_orders = 0
       /\ Len(times) = n_runs /\ IsMean(optimized_time, times)
  /\ pc = "crashed" =>
       /\ Raised(CallResult)
       /\ IF bench = "baseline" THEN baseline_time = None /\ baseline_orders = None
                               ELSE optimized_time = None /\ optimized_orders = None

\* C18 witness: the optimized benchmark made two runs on a non-empty target
\* allocation, every batch was empty, and it returned an average and 0.
C18_Witness ==
  /\ pc = "main_report"
  /\ target_allocation # <<>>
  /\ n_runs = 2
  /\ optimized_orders = 0
  /\ optimized_time \in Durations

\* C19: on a request whose target allocation is not empty and has no entry
\* with abs(diff) above 1.0, no pool is ever created, no work item is
\* submitted, no thread is started and no value is drawn from the
\* generator; and both strategies return an empty batch.
C19_EmptyWithoutPool ==
  (target_allocation # <<>> /\ Significant = {}) =>
    /\ executor = "none"
    /\ fs = <<>> /\ work_queue = <<>> /\ threads = <<>>
    /\ rng = Seed % RngMod
    /\ base_result.kind = "returned" => base_result.orders = <<>>
    /\ pc = "done" =>
         /\ base_result = [kind |-> "returned", orders |-> <<>>]
         /\ opt_result = [kind |-> "returned", orders |-> <<>>]

\* C19 witness: both calls are over on a request that has an entry exactly
\* 1.0 away from its target and none further away.
C19_Witness ==
  /\ pc = "done"
  /\ Significant = {}
  /\ \E j \in DOMAIN target_allocation : Abs(EntryDiff(j)) = Scale
  /\ opt_result.kind = "returned"

\* The request with a position of 1000 in AAA, targets of a half each for
\* AAA and BBB, and a total value of 2000.
ScenarioA ==
  /\ current_positions = [s \in {"AAA"} |-> 1000 * Scale]
  /\ target_allocation = <<[symbol |-> "AAA", pct |-> Scale \div 2],
                           [symbol |-> "BBB", pct |-> Scale \div 2]>>
  /\ total_value = 2000 * Scale

\* The single order that request calls for, without its risk_score:
\* buy BBB, quantity 10.0, current_value 0, target_value 1000.
OrderA == <<"BBB", "buy", 10 * Scale, 0, 1000 * Scale>>

\* C20: on that request a batch returned by either strategy holds exactly
\* one order, the buy of 10.0 BBB from a current value of 0 to a target
\* value of 1000, and no order for AAA.
C20_ScenarioA ==
  ScenarioA =>
    \A r \in {base_result, opt_result} :
      r.kind = "returned" =>
        /\ Len(r.orders) = 1
        /\ Strip(r.orders[1]) = OrderA
        /\ OrdersFor(r.orders, "AAA") = {}

\* C20 witness: both benchmarks have run on that request and each reported
\* one order, the last batch being the optimized strategy's.
C20_Witness ==
  /\ ScenarioA
  /\ pc = "main_report"
  /\ baseline_orders = 1
  /\ optimized_orders = 1
  /\ Strip(opt_result.orders[1]) = OrderA

\* The symbols of a batch, in the order of the batch.
SymbolsOf(batch) == [n \in DOMAIN batch |-> batch[n].symbol]

\* The symbols of the significant entries among the first n entries of the
\* target allocation, in the allocation's iteration order.
RECURSIVE SignificantPrefix(_)
SignificantPrefix(n) ==
  IF n = 0 THEN <<>>
  ELSE IF n \in Significant
         THEN Append(SignificantPrefix(n - 1), target_allocation[n].symbol)
         ELSE SignificantPrefix(n - 1)

\* C21: while the sequential call has visited the first idx - 1 entries, its
\* list holds the orders of exactly those entries that are significant, in
\* iteration order; the batch it returns lists the symbols of all the
\* significant entries in iteration order.
C21_SequentialOrder ==
  /\ pc = "base_loop" =>
       /\ idx <= Len(target_allocation) + 1
       /\ SymbolsOf(orders) = SignificantPrefix(idx - 1)
  /\ base_result.kind = "returned" =>
       SymbolsOf(base_result.orders) = SignificantPrefix(Len(target_allocation))

\* C21 witness: the sequential call returned two orders or more after
\* skipping an entry that lies before its last order.
C21_Witness ==
  /\ base_result.kind = "returned"
  /\ Len(base_result.orders) >= 2
  /\ \E j \in DOMAIN target_allocation :
       j \notin Significant /\ j < Len(target_allocation)

\* C26: the batch the parallel call returns lists the symbols of the
\* significant entries in the iteration order of the target allocation,
\* which is the sequence of symbols of the sequential batch, whatever the
\* order in which the workers took and finished the entries.
C26_ParallelOrder ==
  /\ opt_result.kind = "returned" =>
       SymbolsOf(opt_result.orders) = SignificantPrefix(Len(target_allocation))
  /\ BothReturned =>
       SymbolsOf(opt_result.orders) = SymbolsOf(base_result.orders)

\* C26 witness: the parallel call returned three orders of which the first
\* was synthesized last: after the three draws of the sequential call, the
\* second entry got the first draw, the third the second and the first the
\* third.
C26_Witness ==
  /\ BothReturned
  /\ Len(opt_result.orders) = 3
  /\ \A n \in 1..3 :
       opt_result.orders[n].risk_score
         = RandomValue((Seed + 3 + ((n + 1) % 3)) % RngMod)
             * opt_result.orders[n].quantity

\* The position of the generator after n draws from the seeded position.
AfterDraws(n) == (Seed + n) % RngMod

\* C27: the sequential call has drawn once per order it holds; the parallel
\* call, running after it on the same request, has drawn once per entry a
\* worker has synthesized; and when both have returned each has advanced
\* the generator by the number of significant entries, so an entry that was
\* filtered out cost no draw.
C27_DrawPerOrder ==
  /\ pc = "base_loop" => rng = AfterDraws(Len(orders))
  /\ (pc # "base_loop" /\ base_result.kind = "returned") =>
       rng = AfterDraws(Len(base_result.orders) + Cardinality(Finished))
  /\ BothReturned =>
       /\ Len(base_result.orders) = Cardinality(Significant)
       /\ Len(opt_result.orders) = Cardinality(Significant)
       /\ rng = AfterDraws(2 * Cardinality(Significant))

\* C27 witness: both calls returned on a request with three entries of
\* which one was filtered out, and the generator is four draws on.
C27_Witness ==
  /\ BothReturned
  /\ Len(target_allocation) = 3
  /\ Cardinality(Significant) = 2
  /\ rng = AfterDraws(4)

\* The parallel call of a benchmark run has done its filter phase.
FilterDone == bench = "optimized" /\ (FanOut \/ pc = "bench_return")

\* The values of f at the significant entries among the first n entries of
\* the target allocation, in iteration order.
RECURSIVE SignificantValues(_, _)
SignificantValues(f, n) ==
  IF n = 0 THEN <<>>
  ELSE IF n \in Significant
         THEN Append(SignificantValues(f, n - 1), f[n])
         ELSE SignificantValues(f, n - 1)

\* C23: in whichever run of the benchmark the filter phase is done, and
\* wherever the generator stands, the mask and the filtered arrays are the
\* ones the request alone determines.
C23_FilterPure ==
  FilterDone =>
    LET n == Len(target_allocation)
        current == [i \in 1..n |->
                      Get(current_positions, target_allocation[i].symbol, 0)]
        target == [i \in 1..n |-> FMul(total_value, target_allocation[i].pct)]
        diff == [i \in 1..n |-> EntryDiff(i)]
    IN  /\ mask = [i \in 1..n |-> i \in Significant]
        /\ Significant # {} =>
             /\ filtered_symbols = SignificantPrefix(n)
             /\ filtered_diffs = SignificantValues(diff, n)
             /\ filtered_current = SignificantValues(current, n)
             /\ filtered_target = SignificantValues(target, n)

\* C23 witness: the filter phase of the second parallel run is done, after
\* the earlier calls moved the generator, and it kept an entry.
C23_Witness ==
  /\ FilterDone
  /\ calls = 2
  /\ rng # Seed % RngMod
  /\ filtered_symbols # <<>>
  /\ Len(filtered_symbols) < Len(target_allocation)

\* The request has been answered with a response.
Answered == sv_pc = "idle" /\ status = 200

\* C24: the action of every response /predict returns with status 200,
\* computed or read from the cache, is BUY, SELL or HOLD; and a model output
\* is mapped by its integer part: 0 to HOLD, 1 to BUY, 2 to SELL and any
\* other to HOLD.
C24_ActionDomain ==
  /\ Answered => response.action \in {"BUY", "SELL", "HOLD"}
  /\ sv_pc = "store" => response.action \in {"BUY", "SELL", "HOLD"}
  /\ \A p \in ModelOutputs :
       ActionMap(IntOf(p)) = IF IntOf(p) = 1 THEN "BUY"
                             ELSE IF IntOf(p) = 2 THEN "SELL" ELSE "HOLD"
  /\ \A k \in DOMAIN redis_db :
       JsonLoads(redis_db[k].value).action \in {"BUY", "SELL", "HOLD"}

\* C24 witness: a request was answered from the cache with the action SELL.
C24_Witness ==
  /\ Answered
  /\ "hit" \in effects
  /\ response.action = "SELL"

\* The items of a features dict, whatever their order.
Items(features) == {features[i] : i \in DOMAIN features}

\* Two requests with the same symbol, model_id and features.
Identical(r1, r2) ==
  /\ r1.symbol = r2.symbol
  /\ r1.model_id = r2.model_id
  /\ Items(r1.features) = Items(r2.features)

\* C28: with a Redis that answers, a lookup of a key Redis holds ends the
\* request with the stored response and status 200, and nothing but the
\* lookup was done for it: no model load, no prediction, no cache write; a
\* request that missed stores the response it computed under its key, with
\* the full TTL; and identical requests have the same key whatever the
\* order of their features, so a key stays served to them until it expires.
C28_CacheHitAndFill ==
  /\ [][(/\ sv_pc = "check"
         /\ redis_client = "client"
         /\ GetCacheKey(request) \in DOMAIN redis_db
         /\ sv_pc' # "check"
         /\ "get_failed" \notin effects') =>
          /\ response' = JsonLoads(redis_db[GetCacheKey(request)].value)
          /\ status' = 200 /\ sv_pc' = "idle"
          /\ effects' = {"get", "hit"}
          /\ UNCHANGED <<model_cache, redis_db>>
       ]_vars
  /\ [][(/\ sv_pc = "store"
         /\ sv_pc' # "store"
         /\ "setex" \in effects'
         /\ "setex_failed" \notin effects') =>
          /\ "predict" \in effects /\ "hit" \notin effects
          /\ GetCacheKey(request) \in DOMAIN redis_db'
          /\ redis_db'[GetCacheKey(request)] =
               [value |-> JsonDumps(response), ttl |-> MaxTtl]
          /\ JsonLoads(JsonDumps(response)) = response
       ]_vars
  /\ [](\A r1, r2 \in Requests :
          Identical(r1, r2) => GetCacheKey(r1) = GetCacheKey(r2))
  /\ [](\A k \in DOMAIN redis_db : redis_db[k].ttl \in 1..MaxTtl)

\* C28 witness: a request was answered from the cache under a key that a
\* request with the features in another order had stored.
C28_Witness ==
  /\ Answered
  /\ effects = {"get", "hit"}
  /\ GetCacheKey(request) \in DOMAIN stored_by
  /\ stored_by[GetCacheKey(request)] # request.features

\* The request is over, with whatever status.
Over == sv_pc = "idle" /\ status # 0

\* Redis failed this request: there is no client, or a get or a setex raised.
RedisFailed ==
  \/ redis_client = "none"
  \/ "get_failed" \in effects
  \/ "setex_failed" \in effects

\* The model failed this request: it could not be loaded or predict raised.
ModelFailed == "load_failed" \in effects \/ "predict_failed" \in effects

\* The request wrote its response to Redis.
Wrote == "setex" \in effects /\ "setex_failed" \notin effects

\* C29 as stated: a request Redis failed, and the model did not, is answered
\* with status 200 and a computed response, and it wrote nothing to the
\* cache.
C29_WriteSkipped ==
  (Over /\ RedisFailed /\ ~ModelFailed) =>
    /\ status = 200
    /\ "predict" \in effects /\ "hit" \notin effects
    /\ ~Wrote

\* C29, amended: a request Redis failed, and the model did not, is answered
\* with status 200 and a computed response.  Without a client Redis is not
\* called at all; a setex that raises leaves Redis as it was; after a get
\* that raised the write is still attempted, and it is made when setex
\* works.
C29_RedisFailureTolerated ==
  /\ [](( Over /\ RedisFailed /\ ~ModelFailed) =>
         /\ status = 200
         /\ "predict" \in effects /\ "hit" \notin effects
         /\ response.cached = FALSE
         /\ redis_client = "none" =>
              /\ "get" \notin effects /\ "setex" \notin effects
              /\ redis_db = <<>>
         /\ "get_failed" \in effects => "setex" \in effects)
  /\ [][("setex_failed" \in effects' /\ "setex_failed" \notin effects) =>
          UNCHANGED redis_db
       ]_vars

\* C29 witness: the get of a request raised, the prediction was computed and
\* returned, and the setex that followed stored it.
C29_Witness ==
  /\ Over
  /\ status = 200
  /\ "get_failed" \in effects
  /\ Wrote
  /\ GetCacheKey(request) \in DOMAIN redis_db

\* C30: a request whose model could not be loaded ends with status 404; its
\* model is not in the model cache and it wrote nothing to the prediction
\* cache.
C30_ModelNotFound ==
  (Over /\ "load_failed" \in effects) =>
    /\ status = 404
    /\ request.model_id \notin model_cache
    /\ "setex" \notin effects /\ "predict" \notin effects

\* The periods in which the indicators of a strategy are still undefined.
WarmUp(strat) ==
  IF strat = "momentum" THEN 1..(LongWindow - 1)
  ELSE IF strat = "mean_reversion" THEN 1..(ShortWindow - 1)
  ELSE 1..LongWindow

\* C25: for each of the three strategies the returned Series has one signal
\* per period of the frame, each -1, 0 or 1; a period where neither the buy
\* nor the sell condition holds has 0, and so has every warm-up period.
C25_SignalDomain ==
  bt_pc = "returned" =>
    /\ strategy \in Strategies
    /\ DOMAIN signals = DOMAIN ohlcv
    /\ \A i \in DOMAIN signals :
         /\ signals[i] \in {0 - 1, 0, 1}
         /\ (~BuyMask(ohlcv, strategy)[i] /\ ~SellMask(ohlcv, strategy)[i])
              => signals[i] = 0
         /\ i \in WarmUp(strategy) => signals[i] = 0

\* C25 witness: a frame longer than the warm-up got a buy and a sell after
\* it and zeros in it.
C25_Witness ==
  /\ bt_pc = "returned"
  /\ Len(ohlcv) = MaxPeriods
  /\ \E i, j \in DOMAIN signals : signals[i] = 1 /\ signals[j] = 0 - 1
  /\ signals[1] = 0

\* A risk score has been computed by one of the two strategies.
Scored == fl_pc \in {"baseline", "optimized"}

\* C22 as stated: every risk score has 0 <= risk_score < quantity * 0.01.
C22_StrictBound ==
  Scored =>
    /\ FloatLe(Zero, fl_risk)
    /\ FloatLt(fl_risk, FloatMul(fl_quantity, Coef))

\* C22: every order of either strategy has 0 <= risk_score <= quantity * 0.01
\* in the arithmetic of floats: the score is one draw in [0,1) times the
\* quantity times 0.01, and rounding can close the gap to the bound.
C22_RiskBound ==
  Scored =>
    /\ fl_rand \in Draws
    /\ FloatLt(fl_rand, Round(1, 0))
    /\ FloatLe(Zero, fl_risk)
    /\ FloatLe(fl_risk, FloatMul(fl_quantity, Coef))

\* C22 witness: the largest draw gave the optimized strategy a risk score
\* equal to quantity * 0.01.
C22_Witness ==
  /\ fl_pc = "optimized"
  /\ fl_rand = MaxDraw
  /\ fl_risk = FloatMul(fl_quantity, Coef)

====
